---- MODULE Spec2Model ----
(***************************************************************************)
(* Path ORAM: the client handler (src/src/client.rs) speaking to the       *)
(* bucket-store server (src/src/server.rs).  The per-bucket variant of     *)
(* the client (src/src/client/main.rs) is modelled by the Legacy actions.  *)
(***************************************************************************)
EXTENDS Integers, Sequences, FiniteSets, Bags, TLC

\* ------------------------------------------------------------------ bounds
MaxN == 3        \* longest data array given to setup
MaxZ == 2        \* largest bucket size given on the command line
MaxVal == 2      \* payloads are 1..MaxVal
MaxAccesses == 4 \* logical accesses of a run, setup's writes included
MaxLayers == 2   \* largest num_layers of a Setup request sent by another caller
MaxIndices == 2  \* longest indices list of such a request
MaxBlocks == 4   \* longest blocks list of such a request
MaxFaultN == 2   \* longest data array of a run in which an RPC fails
MaxHandlers == 2 \* requests the server's runtime executes at the same time
MaxDepth == 4    \* deepest tree the index functions are applied to

Vals == 1..MaxVal

\* ------------------------------------------------------------------ blocks
NoneVal == <<>>                        \* Option::None

Some(v) == <<v>>                       \* Option::Some(v)

EMPTY == [index |-> -1, value |-> -1]

MkBlock(a, v) == [index |-> a, value |-> v]

EmptyMap == [a \in {} |-> 0]

RECURSIVE Pow2(_)
Pow2(k) == IF k <= 0 THEN 1 ELSE 2 * Pow2(k - 1)

\* (n as f64).log2().ceil() as i32, for n >= 1
RECURSIVE CeilLog2From(_, _)
CeilLog2From(n, k) == IF Pow2(k) >= n THEN k ELSE CeilLog2From(n, k + 1)

CeilLog2(n) == CeilLog2From(n, 0)

\* ------------------------------------------------------------------ state
VARIABLES
    pc,            \* client position: "new", "setup", "ready", "panicked"; or what
                   \* is run instead of a client: "server", "observe", "index"
    data,          \* the array handed to setup
    next,          \* setup's loop index over data
    n, l, z, num_leaves, stash, pmap,     \* PathORAMHandler fields
    data_store, bucket_size,              \* MyPathOram fields
    poisoned,      \* the data_store RwLock was poisoned by a panicking writer
    locks,         \* who holds the RwLock of data_store and of bucket_size
    inflight,      \* the handler each worker of the server's runtime is in
    rpc,           \* history: the last request served for another caller, or
                   \* the first RPC of the client that failed
    shadow,        \* history: last value written per address
    last,          \* history: the last completed logical access
    acc,           \* history: number of logical accesses so far
    obs            \* two access sequences and what the server sees of each, or
                   \* the last call of an index function

vars == <<pc, data, next, n, l, z, num_leaves, stash, pmap,
          data_store, bucket_size, poisoned, locks, inflight,
          rpc, shadow, last, acc, obs>>

\* ------------------------------------------------------------------ helpers
\* mutant: nothing is ever taken
Min_none(a, b) == 0

Min(a, b) == IF a <= b THEN a ELSE b

Range(s) == {s[i] : i \in DOMAIN s}

MapPut(m, k, v) == [a \in (DOMAIN m) \cup {k} |-> IF a = k THEN v ELSE m[a]]

\* mutant: the picked entries are not removed
MapDel_keep(m, S) == m

MapDel(m, S) == [a \in (DOMAIN m) \ S |-> m[a]]

MapGet(m, k) == IF k \in DOMAIN m THEN Some(m[k]) ELSE NoneVal

\* the orders in which a HashMap iteration can yield k distinct keys of E
Orders(E, k) == {s \in [1..k -> E] : \A i, j \in 1..k : i # j => s[i] # s[j]}

RECURSIVE Flatten(_)
Flatten(ss) == IF ss = <<>> THEN <<>> ELSE Head(ss) \o Flatten(Tail(ss))

\* ------------------------------------------------------------------ locks
Handlers == 1..MaxHandlers

\* std::sync::RwLock: the handler holding the write guard (0: none) and the
\* handlers holding read guards
FreeLock == [writer |-> 0, readers |-> {}]

Unlocked == [data_store |-> FreeLock, bucket_size |-> FreeLock]

Idle == [op |-> "idle"]

NoHandlers == [t \in Handlers |-> Idle]

\* ------------------------------------------------------------------ server
\* Vec::get(index as usize): a negative i32 casts to a huge usize
InRange(store, index) == index >= 0 /\ index < Len(store)

EmptyBucket(bs) == [j \in 1..bs |-> EMPTY]

\* mutant: a tree one level short (2^(num_layers-1) - 1 buckets)
server_setup_short(num_layers, bs) ==
    [data_store  |-> [i \in 1..(Pow2(num_layers - 1) - 1) |-> EmptyBucket(bs)],
     bucket_size |-> bs,
     success     |-> TRUE]

\* MyPathOram::setup: the store replaced whole, bucket_size recorded
server_setup(num_layers, bs) ==
    [data_store  |-> [i \in 1..(Pow2(num_layers) - 1) |-> EmptyBucket(bs)],
     bucket_size |-> bs,
     success     |-> TRUE]

\* setup panics before it takes a lock: 2_usize.pow(num_layers as u32)
\* overflows for a negative num_layers (and what a release build wraps it to
\* cannot be allocated), vec![empty_block; bucket_size as usize] exceeds the
\* capacity of a Vec for a negative bucket_size
setup_panics(num_layers, bs) == num_layers < 0 \/ bs < 0

\* MyPathOram::read_block
read_block(store, indices) ==
    IF \A k \in DOMAIN indices : InRange(store, indices[k])
    THEN [status |-> "Ok",
          blocks |-> Flatten([k \in DOMAIN indices |-> store[indices[k] + 1]])]
    ELSE [status |-> "NotFound", blocks |-> <<>>]

\* mutant: the bucket is replaced by the blocks taken, not written in place
WriteBucket_replace(bucket, bsz, blocks) ==
    SubSeq(blocks, 1, Min(bsz, Len(blocks)))

\* one pass of the inner loop of write_block: slots 0..bsz-1 of the bucket
\* are assigned from the block iterator, as far as it reaches
WriteBucket(bucket, bsz, blocks) ==
    [i \in DOMAIN bucket |->
        IF i <= Min(bsz, Len(blocks))
        THEN [value |-> blocks[i].value, index |-> blocks[i].index]
        ELSE bucket[i]]

\* MyPathOram::write_block: in place, index by index; "Panic" is the expect()
\* on an exhausted block iterator
RECURSIVE write_block(_, _, _, _)
write_block(store, bsz, indices, blocks) ==
    IF indices = <<>> THEN [store |-> store, status |-> "Ok"]
    ELSE LET index == Head(indices) IN
         IF ~InRange(store, index) THEN [store |-> store, status |-> "NotFound"]
         ELSE LET written == [store EXCEPT ![index + 1] =
                                  WriteBucket(store[index + 1], bsz, blocks)]
              IN IF Len(blocks) < bsz
                 THEN [store |-> written, status |-> "Panic"]
                 ELSE write_block(written, bsz, Tail(indices),
                                  SubSeq(blocks, bsz + 1, Len(blocks)))

\* ------------------------------------------------------------------ client
\* mutant: the heap index counted from 1
get_index_from1(L, x, lvl) ==
    LET xx == IF L > 0 THEN Pow2(L) + x ELSE 1
    IN xx \div Pow2(L - lvl)

\* x, l, L are non-negative here, so the shifts are divisions by powers of two
get_index(L, x, lvl) ==
    LET xx == IF L > 0 THEN Pow2(L) + x ELSE 1
    IN (xx \div Pow2(L - lvl)) - 1

\* a & !m and a | m on non-negative i32 values, bit by bit
RECURSIVE BitAndNot(_, _)
BitAndNot(a, m) ==
    IF a = 0 THEN 0
    ELSE (a % 2) * (1 - (m % 2)) + 2 * BitAndNot(a \div 2, m \div 2)

RECURSIVE BitOr(_, _)
BitOr(a, m) ==
    IF a = 0 /\ m = 0 THEN 0
    ELSE (IF a % 2 = 1 \/ m % 2 = 1 THEN 1 ELSE 0) + 2 * BitOr(a \div 2, m \div 2)

\* mutant: the mask is one bit too wide
get_on_path_indices_wide(L, x, lvl) ==
    LET mask == Pow2(L - lvl + 1) - 1
    IN BitAndNot(x, mask)..BitOr(x, mask)

get_on_path_indices(L, x, lvl) ==
    IF lvl = L THEN x..x
    ELSE LET d     == L - lvl
             mask  == Pow2(d) - 1
             start == BitAndNot(x, mask)
             end   == BitOr(x, mask)
         IN start..end

\* mutant: the exclusive range 0..l, which misses the leaf bucket
ReadIndices_exclusive(L, x) == [k \in 1..L |-> get_index(L, x, k - 1)]

\* the indices write_back_stash pushes: levels (0..=l).rev()
WriteIndices(L, x) == [k \in 1..(L + 1) |-> get_index(L, x, L + 1 - k)]

\* the indices of the ReadBlockRequest of update_stash: levels 0..=l
ReadIndices(L, x) == [k \in 1..(L + 1) |-> get_index(L, x, k - 1)]

\* the response loop of update_stash: non-empty blocks inserted in order
RECURSIVE InsertBlocks(_, _)
InsertBlocks(st, blocks) ==
    IF blocks = <<>> THEN st
    ELSE InsertBlocks(IF Head(blocks).index # -1
                      THEN MapPut(st, Head(blocks).index, Head(blocks).value)
                      ELSE st,
                      Tail(blocks))

update_stash(st, store, L, x) ==
    LET rd == read_block(store, ReadIndices(L, x))
    IN IF rd.status = "Ok" THEN InsertBlocks(st, rd.blocks) ELSE st

\* mutant: every level takes only the entries of the leaf x itself
Eligible_leaf(st, pm, L, x, lvl) == {a \in DOMAIN st : pm[a] = x}

\* mutant: every level takes what the root bucket may take
Eligible_root(st, pm, L, x, lvl) ==
    {a \in DOMAIN st : pm[a] \in get_on_path_indices(L, x, 0)}

\* mutant: every stash entry qualifies, whatever its leaf
Eligible_any(st, pm, L, x, lvl) == DOMAIN st

\* the stash entries write_back_stash may pick at one level
Eligible(st, pm, L, x, lvl) ==
    {a \in DOMAIN st : pm[a] \in get_on_path_indices(L, x, lvl)}

\* mutant: no dummy blocks are added
BlocksForIndex_nopad(st, wb, Z) ==
    [i \in 1..Len(wb) |-> [value |-> st[wb[i]], index |-> wb[i]]]

\* blocks_for_index: the picked entries, then dummy blocks up to Z
BlocksForIndex(st, wb, Z) ==
    [i \in 1..(IF Len(wb) < Z THEN Z ELSE Len(wb)) |->
        IF i <= Len(wb) THEN [value |-> st[wb[i]], index |-> wb[i]] ELSE EMPTY]

\* the loop of write_back_stash from level lvl down to 0 (Z >= 1): every
\* request and remaining stash the HashMap's iteration order can produce
RECURSIVE WriteBackFrom(_, _, _, _, _, _, _, _)
WriteBackFrom(st, pm, L, Z, x, lvl, indices, blocks) ==
    IF lvl < 0 THEN {[stash |-> st, indices |-> indices, blocks |-> blocks]}
    ELSE LET E == Eligible(st, pm, L, x, lvl)
         IN UNION {WriteBackFrom(MapDel(st, Range(wb)), pm, L, Z, x, lvl - 1,
                                 Append(indices, get_index(L, x, lvl)),
                                 blocks \o BlocksForIndex(st, wb, Z))
                   : wb \in Orders(E, Min(Z, Cardinality(E)))}

write_back_stash(st, pm, L, Z, x) == WriteBackFrom(st, pm, L, Z, x, L, <<>>, <<>>)

\* mutant: x is read after pmap[a] was replaced
AccessLeaf_fresh(pm, a, r) == r

\* mutant: the position map is left as it was
Remap_none(pm, a, r) == pm

\* let x = self.pmap[a as usize], read before pmap[a] is replaced by the
\* fresh draw r
AccessLeaf(pm, a, r) == pm[a]

\* self.pmap[a as usize] = self.rng.gen_range(0..self.num_leaves)
Remap(pm, a, r) == [pm EXCEPT ![a] = r]

\* the core action between the two RPCs
CoreOut(st, a) == MapGet(st, a)

\* mutant: a write keeps an existing entry (entry().or_insert)
CoreStash_keep(st, op, a, v) ==
    IF op = "write" /\ a \notin DOMAIN st THEN MapPut(st, a, v) ELSE st

CoreStash(st, op, a, v) == IF op = "write" THEN MapPut(st, a, v) ELSE st

NoAccess == [op |-> "none"]

\* PathORAMHandler::read / write with fresh leaf r; every RPC succeeds.  The
\* diagnostic RPC of debug builds only reads the store and is left out.
Access(op, a, v, r) ==
    LET x   == AccessLeaf(pmap, a, r)
        pm  == Remap(pmap, a, r)
        st1 == update_stash(stash, data_store, l, x)
        out == CoreOut(st1, a)
        st2 == CoreStash(st1, op, a, v)
    IN \E wb \in write_back_stash(st2, pm, l, z, x) :
         LET wr == write_block(data_store, bucket_size, wb.indices, wb.blocks)
         IN /\ pmap' = pm
            /\ stash' = wb.stash
            /\ data_store' = wr.store
            /\ poisoned' = (wr.status = "Panic")
            /\ shadow' = IF op = "write" THEN [shadow EXCEPT ![a] = Some(v)] ELSE shadow
            /\ last' = [op |-> op, a |-> a, v |-> v, out |-> out,
                        prior |-> shadow[a], before |-> pmap[a],
                        rindices |-> ReadIndices(l, x),
                        windices |-> wb.indices, wblocks |-> wb.blocks,
                        rpcs |-> <<"ReadBlock">> \o <<"WriteBlock">>]
            /\ acc' = acc + 1
            /\ UNCHANGED <<n, l, z, num_leaves, bucket_size, data, rpc, obs,
                           locks, inflight>>

\* self.l and self.num_leaves as setup computes them from data.len()
TreeDepth(nn) == CeilLog2(nn)

\* mutant: one leaf label per bucket of the two lowest levels
NumLeaves_double(ll) == IF ll > 0 THEN Pow2(ll + 1) ELSE 0

NumLeaves(ll) == IF ll > 0 THEN Pow2(ll) ELSE 0

\* the arrays handed to setup: 1..MaxVal repeated, from any starting value
DataArrays(k) ==
    {[a \in 0..(k - 1) |-> 1 + ((a + s) % MaxVal)] : s \in 0..(MaxVal - 1)}

Init ==
    /\ pc = "new"
    /\ data \in UNION {DataArrays(k) : k \in 1..MaxN}
    /\ next = 0
    /\ n = -1 /\ l = -1 /\ num_leaves = 0
    /\ z \in 1..MaxZ
    /\ stash = EmptyMap /\ pmap = EmptyMap
    /\ data_store = <<>> /\ bucket_size = 0 /\ poisoned = FALSE
    /\ locks = Unlocked /\ inflight = NoHandlers
    /\ shadow = EmptyMap
    /\ last = NoAccess
    /\ rpc = NoAccess
    /\ acc = 0
    /\ obs = NoAccess

\* setup up to the pmap initialisation; gen_range on the empty range
\* 0..0 panics ("cannot sample empty range")
SetupBegin ==
    /\ pc = "new"
    /\ LET nn == Cardinality(DOMAIN data)
           ll == TreeDepth(nn)
           nl == NumLeaves(ll)
           sv == server_setup(ll + 1, z)
       IN /\ n' = nn /\ l' = ll /\ num_leaves' = nl
          /\ data_store' = sv.data_store /\ bucket_size' = sv.bucket_size
          /\ shadow' = [a \in 0..(nn - 1) |-> NoneVal]
          /\ IF nl = 0
             THEN pc' = "panicked" /\ pmap' = pmap
             ELSE pc' = "setup" /\ pmap' \in [0..(nn - 1) -> 0..(nl - 1)]
    /\ UNCHANGED <<data, next, z, stash, poisoned, rpc, last, acc, obs,
                   locks, inflight>>

\* one iteration of setup's loop: self.write(a, data[a])
SetupWrite ==
    /\ pc = "setup"
    /\ \E r \in 0..(num_leaves - 1) : Access("write", next, data[next], r)
    /\ next' = next + 1
    /\ pc' = IF next + 1 = n THEN "ready" ELSE "setup"

Read(a) ==
    /\ pc = "ready" /\ acc < MaxAccesses
    /\ \E r \in 0..(num_leaves - 1) : Access("read", a, 0, r)
    /\ UNCHANGED <<pc, next>>

Write(a, v) ==
    /\ pc = "ready" /\ acc < MaxAccesses
    /\ \E r \in 0..(num_leaves - 1) : Access("write", a, v, r)
    /\ UNCHANGED <<pc, next>>

Next ==
    \/ SetupBegin
    \/ SetupWrite
    \/ \E a \in 0..(n - 1) : Read(a)
    \/ \E a \in 0..(n - 1), v \in Vals : Write(a, v)

Spec == Init /\ [][Next]_vars

\* ------------------------------------------------------------------ failing RPCs
\* read / write with fresh leaf r when the transport fails the RPC f of the
\* access ("ReadBlock": the Err arm of update_stash, the stash gets nothing;
\* "WriteBlock": the request never reaches the store).  Both arms only
\* println! and return, so the caller goes on; read and write return an
\* Option<i32> and have no error to give back.  rpc keeps the first failure
\* of the run: the RPCs that access issued and its number.
FaultyAccess(op, a, v, r, f) ==
    LET x   == AccessLeaf(pmap, a, r)
        pm  == Remap(pmap, a, r)
        st1 == IF f = "ReadBlock" THEN stash
               ELSE update_stash(stash, data_store, l, x)
        out == CoreOut(st1, a)
        st2 == CoreStash(st1, op, a, v)
    IN /\ rpc.op = "none"
       /\ \E wb \in write_back_stash(st2, pm, l, z, x) :
            LET wr == write_block(data_store, bucket_size, wb.indices, wb.blocks)
            IN /\ pmap' = pm
               /\ stash' = wb.stash
               /\ data_store' = IF f = "WriteBlock" THEN data_store ELSE wr.store
               /\ poisoned' = (f # "WriteBlock" /\ wr.status = "Panic")
               /\ shadow' = IF op = "write" THEN [shadow EXCEPT ![a] = Some(v)] ELSE shadow
               /\ last' = [op |-> op, a |-> a, v |-> v, out |-> out,
                           prior |-> shadow[a], before |-> pmap[a],
                           rindices |-> ReadIndices(l, x),
                           windices |-> wb.indices, wblocks |-> wb.blocks,
                           rpcs |-> <<"ReadBlock">> \o <<"WriteBlock">>]
               /\ rpc' = [op |-> "fault", failed |-> f, acc |-> acc + 1,
                          rpcs |-> <<"ReadBlock">> \o <<"WriteBlock">>]
               /\ acc' = acc + 1
               /\ UNCHANGED <<n, l, z, num_leaves, bucket_size, data, obs,
                              locks, inflight>>

RpcKinds == {"ReadBlock", "WriteBlock"}

FaultySetupWrite(f) ==
    /\ pc = "setup"
    /\ \E r \in 0..(num_leaves - 1) : FaultyAccess("write", next, data[next], r, f)
    /\ next' = next + 1
    /\ pc' = IF next + 1 = n THEN "ready" ELSE "setup"

FaultyRead(a, f) ==
    /\ pc = "ready" /\ acc < MaxAccesses
    /\ \E r \in 0..(num_leaves - 1) : FaultyAccess("read", a, 0, r, f)
    /\ UNCHANGED <<pc, next>>

FaultyWrite(a, v, f) ==
    /\ pc = "ready" /\ acc < MaxAccesses
    /\ \E r \in 0..(num_leaves - 1) : FaultyAccess("write", a, v, r, f)
    /\ UNCHANGED <<pc, next>>

\* setup when the transport fails its Setup RPC: initialize_server prints
\* "Failed to initialize server" and returns (), the store stays what the
\* server had, and setup goes on to the position map and its writes
FaultySetupBegin ==
    /\ pc = "new" /\ rpc.op = "none"
    /\ LET nn == Cardinality(DOMAIN data)
           ll == TreeDepth(nn)
           nl == NumLeaves(ll)
       IN /\ n' = nn /\ l' = ll /\ num_leaves' = nl
          /\ shadow' = [a \in 0..(nn - 1) |-> NoneVal]
          /\ IF nl = 0
             THEN pc' = "panicked" /\ pmap' = pmap
             ELSE pc' = "setup" /\ pmap' \in [0..(nn - 1) -> 0..(nl - 1)]
    /\ rpc' = [op |-> "fault", failed |-> "Setup", acc |-> 0, rpcs |-> <<"Setup">>]
    /\ UNCHANGED <<data, next, z, stash, data_store, bucket_size, poisoned,
                   last, acc, obs, locks, inflight>>

\* Access leaves rpc alone, so the accesses after a failure go through it
NextFault ==
    \/ SetupBegin
    \/ FaultySetupBegin
    \/ SetupWrite
    \/ \E a \in 0..(n - 1) : Read(a)
    \/ \E a \in 0..(n - 1), v \in Vals : Write(a, v)
    \/ \E f \in RpcKinds : FaultySetupWrite(f)
    \/ \E a \in 0..(n - 1), f \in RpcKinds : FaultyRead(a, f)
    \/ \E a \in 0..(n - 1), v \in Vals, f \in RpcKinds : FaultyWrite(a, v, f)

InitFault == Init /\ Cardinality(DOMAIN data) <= MaxFaultN

SpecFault == InitFault /\ [][NextFault]_vars

\* ------------------------------------------------------------------ the per-bucket variant
\* src/src/server/main.rs: read_block of one index
legacy_read_block(store, index) ==
    IF InRange(store, index)
    THEN [status |-> "Ok", blocks |-> store[index + 1]]
    ELSE [status |-> "NotFound", blocks |-> <<>>]

\* src/src/server/main.rs: write_block of one index, blocks.iter().take(bucket_size)
legacy_write_block(store, bsz, index, blocks) ==
    IF InRange(store, index)
    THEN [store  |-> [store EXCEPT ![index + 1] =
                         WriteBucket(store[index + 1], bsz, blocks)],
          status |-> "Ok"]
    ELSE [store |-> store, status |-> "NotFound"]

\* src/src/client/main.rs update_stash: one ReadBlock RPC per level lvl..=L
RECURSIVE legacy_update_stash(_, _, _, _, _)
legacy_update_stash(st, store, L, x, lvl) ==
    IF lvl > L THEN st
    ELSE LET rd == legacy_read_block(store, get_index(L, x, lvl))
         IN legacy_update_stash(IF rd.status = "Ok"
                                THEN InsertBlocks(st, rd.blocks) ELSE st,
                                store, L, x, lvl + 1)

\* src/src/client/main.rs write_back_stash: one WriteBlock RPC per level,
\* here applied to the store for the k-th index of the leaf-to-root list on
RECURSIVE legacy_write_path(_, _, _, _, _)
legacy_write_path(store, bsz, indices, blocks, Z) ==
    IF indices = <<>> THEN store
    ELSE legacy_write_path(
             legacy_write_block(store, bsz, Head(indices), SubSeq(blocks, 1, Z)).store,
             bsz, Tail(indices), SubSeq(blocks, Z + 1, Len(blocks)), Z)

\* the RPCs of one access of the per-bucket client, in issue order
LegacyRpcs(L) ==
    [k \in 1..(2 * (L + 1)) |-> IF k <= L + 1 THEN "ReadBlock" ELSE "WriteBlock"]

\* read / write of src/src/client/main.rs with fresh leaf r
LegacyAccess(op, a, v, r) ==
    LET x   == AccessLeaf(pmap, a, r)
        pm  == Remap(pmap, a, r)
        st1 == legacy_update_stash(stash, data_store, l, x, 0)
        out == CoreOut(st1, a)
        st2 == CoreStash(st1, op, a, v)
    IN \E wb \in write_back_stash(st2, pm, l, z, x) :
            /\ pmap' = pm
            /\ stash' = wb.stash
            /\ data_store' = legacy_write_path(data_store, bucket_size,
                                               wb.indices, wb.blocks, z)
            /\ shadow' = IF op = "write" THEN [shadow EXCEPT ![a] = Some(v)] ELSE shadow
            /\ last' = [op |-> op, a |-> a, v |-> v, out |-> out,
                        prior |-> shadow[a], before |-> pmap[a],
                        rindices |-> ReadIndices(l, x),
                        windices |-> wb.indices, wblocks |-> wb.blocks,
                        rpcs |-> LegacyRpcs(l)]
            /\ acc' = acc + 1
            /\ UNCHANGED <<n, l, z, num_leaves, bucket_size, data, rpc, poisoned, obs,
                           locks, inflight>>

LegacySetupWrite ==
    /\ pc = "setup"
    /\ \E r \in 0..(num_leaves - 1) : LegacyAccess("write", next, data[next], r)
    /\ next' = next + 1
    /\ pc' = IF next + 1 = n THEN "ready" ELSE "setup"

LegacyRead(a) ==
    /\ pc = "ready" /\ acc < MaxAccesses
    /\ \E r \in 0..(num_leaves - 1) : LegacyAccess("read", a, 0, r)
    /\ UNCHANGED <<pc, next>>

LegacyWrite(a, v) ==
    /\ pc = "ready" /\ acc < MaxAccesses
    /\ \E r \in 0..(num_leaves - 1) : LegacyAccess("write", a, v, r)
    /\ UNCHANGED <<pc, next>>

NextLegacy ==
    \/ SetupBegin
    \/ LegacySetupWrite
    \/ \E a \in 0..(n - 1) : LegacyRead(a)
    \/ \E a \in 0..(n - 1), v \in Vals : LegacyWrite(a, v)

SpecLegacy == Init /\ [][NextLegacy]_vars

\* ------------------------------------------------------------------ the server alone
\* requests of any caller of the service, well-formed or not
SeqsUpTo(S, k) == UNION {[1..m -> S] : m \in 0..k}

ReqIndices == SeqsUpTo(-1..(Pow2(MaxLayers) - 1), MaxIndices)

ReqBlocks == SeqsUpTo({EMPTY, MkBlock(0, 1)}, MaxBlocks)

InitServer ==
    /\ pc = "server"
    /\ data = EmptyMap /\ next = 0
    /\ n = -1 /\ l = -1 /\ num_leaves = 0 /\ z = 0
    /\ stash = EmptyMap /\ pmap = EmptyMap
    /\ data_store = <<>> /\ bucket_size = 0 /\ poisoned = FALSE
    /\ locks = Unlocked /\ inflight = NoHandlers
    /\ shadow = EmptyMap
    /\ last = NoAccess
    /\ rpc = NoAccess
    /\ acc = 0
    /\ obs = NoAccess

ClientIdle == UNCHANGED <<pc, data, next, n, l, z, num_leaves, stash, pmap,
                          shadow, last, acc, obs>>

\* a poisoned data_store lock fails every handler with "Lock failed"
LockFailed(op) ==
    /\ poisoned
    /\ rpc' = [op |-> op, status |-> "Internal"]
    /\ UNCHANGED <<data_store, bucket_size, poisoned>>

SrvSetup(num_layers, bs) ==
    /\ pc = "server"
    /\ \/ /\ setup_panics(num_layers, bs)
          /\ rpc' = [op |-> "Setup", status |-> "Panic"]
          /\ UNCHANGED <<data_store, bucket_size, poisoned>>
       \/ ~setup_panics(num_layers, bs) /\ LockFailed("Setup")
       \/ /\ ~setup_panics(num_layers, bs) /\ ~poisoned
          /\ LET sv == server_setup(num_layers, bs)
             IN /\ data_store' = sv.data_store
                /\ bucket_size' = sv.bucket_size
                /\ rpc' = [op |-> "Setup", status |-> "Ok", success |-> sv.success]
          /\ UNCHANGED poisoned
    /\ UNCHANGED <<locks, inflight>>
    /\ ClientIdle

SrvReadBlock(indices) ==
    /\ pc = "server"
    /\ \/ LockFailed("ReadBlock")
       \/ /\ ~poisoned
          /\ LET rd == read_block(data_store, indices)
             IN rpc' = [op |-> "ReadBlock", status |-> rd.status,
                        indices |-> indices, blocks |-> rd.blocks]
          /\ UNCHANGED <<data_store, bucket_size, poisoned>>
    /\ UNCHANGED <<locks, inflight>>
    /\ ClientIdle

SrvWriteBlock(indices, blocks) ==
    /\ pc = "server"
    /\ \/ LockFailed("WriteBlock")
       \/ /\ ~poisoned
          /\ LET wr == write_block(data_store, bucket_size, indices, blocks)
             IN /\ data_store' = wr.store
                /\ poisoned' = (wr.status = "Panic")
                /\ rpc' = [op |-> "WriteBlock", status |-> wr.status]
          /\ UNCHANGED bucket_size
    /\ UNCHANGED <<locks, inflight>>
    /\ ClientIdle

NextServer ==
    \/ \E num_layers \in -1..MaxLayers, bs \in -1..MaxZ : SrvSetup(num_layers, bs)
    \/ \E indices \in ReqIndices : SrvReadBlock(indices)
    \/ \E indices \in ReqIndices, blocks \in ReqBlocks : SrvWriteBlock(indices, blocks)

SpecServer == InitServer /\ [][NextServer]_vars

\* ------------------------------------------------------------------ the server under concurrent requests
\* The tokio runtime runs the handlers of different connections on its
\* workers at the same time; a handler has no await between taking a guard
\* and returning.  One step below is one lock operation or one pass of a
\* handler's loop over indices.

\* mutant: a writer is let in while read guards are out
CanWrite_shared(lk) == lk.writer = 0

\* RwLock::write returns once there is no guard out; RwLock::read once there
\* is no write guard out (which of several waiters goes first is unspecified)
CanWrite(lk) == lk.writer = 0 /\ lk.readers = {}

CanRead(lk) == lk.writer = 0

\* mutant: the guards outlive the handler
Release_leak(lk, t) == lk

\* the guards of handler t dropped at the end of its function
Release(lk, t) ==
    [writer |-> IF lk.writer = t THEN 0 ELSE lk.writer, readers |-> lk.readers \ {t}]

ReleaseAll(t) ==
    [data_store  |-> Release(locks.data_store, t),
     bucket_size |-> Release(locks.bucket_size, t)]

\* the requests of clients of trees of up to MaxLayers layers: Setup, the
\* ReadBlock and WriteBlock of a path with all blocks alike, and the
\* diagnostic request
TreeLeaves == UNION {{L} \X (0..(Pow2(L) - 1)) : L \in 0..(MaxLayers - 1)}

Requests ==
    [op : {"Setup"}, num_layers : 1..MaxLayers, bucket_size : 1..MaxZ]
    \cup [op : {"ReadBlock"}, indices : {ReadIndices(p[1], p[2]) : p \in TreeLeaves}]
    \cup {[op |-> "WriteBlock", indices |-> p, blocks |-> [i \in 1..(Len(p) * zz) |-> b]] :
             p \in {WriteIndices(q[1], q[2]) : q \in TreeLeaves}, zz \in 1..MaxZ, b \in {EMPTY, MkBlock(0, 1)}}
    \cup [op : {"Print"}]

ServerIdle == UNCHANGED <<data_store, bucket_size, poisoned>>

Step(t, h) == inflight' = [inflight EXCEPT ![t] = h]

\* the function returns: its guards are dropped
Return(t) == Step(t, Idle) /\ locks' = ReleaseAll(t)

\* a worker picks up a request
Receive(t, req) ==
    /\ pc = "server" /\ inflight[t] = Idle
    /\ Step(t, [req |-> req, pc |-> "start"])
    /\ UNCHANGED locks /\ ServerIdle
    /\ UNCHANGED rpc /\ ClientIdle

At(t, op, at) ==
    /\ pc = "server" /\ inflight[t] # Idle
    /\ inflight[t].req.op = op /\ inflight[t].pc = at

\* data_store.read() / .write() on the poisoned lock: Err, mapped to
\* Status::internal("Lock failed"), the guard inside the error dropped
LockFails(t) ==
    /\ pc = "server" /\ inflight[t] # Idle /\ inflight[t].pc = "start"
    /\ poisoned
    /\ IF inflight[t].req.op \in {"Setup", "WriteBlock"}
       THEN CanWrite(locks.data_store) ELSE CanRead(locks.data_store)
    /\ Return(t) /\ ServerIdle
    /\ UNCHANGED rpc /\ ClientIdle

\* setup: *data_store = new_data_store under the write guard
SetupLock(t) ==
    /\ At(t, "Setup", "start") /\ ~poisoned
    /\ CanWrite(locks.data_store)
    /\ locks' = [locks EXCEPT !.data_store.writer = t]
    /\ data_store' = server_setup(inflight[t].req.num_layers,
                                  inflight[t].req.bucket_size).data_store
    /\ Step(t, [inflight[t] EXCEPT !.pc = "size"])
    /\ UNCHANGED <<bucket_size, poisoned, rpc>> /\ ClientIdle

\* setup: *bucket_size = setup_request.bucket_size under its write guard
SetupSize(t) ==
    /\ At(t, "Setup", "size")
    /\ CanWrite(locks.bucket_size)
    /\ locks' = [locks EXCEPT !.bucket_size.writer = t]
    /\ bucket_size' = inflight[t].req.bucket_size
    /\ Step(t, [inflight[t] EXCEPT !.pc = "return"])
    /\ UNCHANGED <<data_store, poisoned, rpc>> /\ ClientIdle

SetupReturn(t) ==
    /\ At(t, "Setup", "return")
    /\ Return(t) /\ ServerIdle
    /\ UNCHANGED rpc /\ ClientIdle

\* read_block: the read guard, then blocks.extend(bucket) index by index
ReadLock(t) ==
    /\ At(t, "ReadBlock", "start") /\ ~poisoned
    /\ CanRead(locks.data_store)
    /\ locks' = [locks EXCEPT !.data_store.readers = @ \cup {t}]
    /\ Step(t, [req |-> inflight[t].req, pc |-> "reading", k |-> 1, blocks |-> <<>>])
    /\ ServerIdle /\ UNCHANGED rpc /\ ClientIdle

ReadStep(t) ==
    /\ At(t, "ReadBlock", "reading")
    /\ LET h == inflight[t]
           rd == read_block(data_store, <<h.req.indices[h.k]>>)
       IN IF h.k > Len(h.req.indices) THEN Return(t)
          ELSE IF rd.status = "Ok"
          THEN /\ Step(t, [h EXCEPT !.k = @ + 1, !.blocks = @ \o rd.blocks])
               /\ UNCHANGED locks
          ELSE Return(t)
    /\ ServerIdle /\ UNCHANGED rpc /\ ClientIdle

\* write_block: the write guard, then the value of bucket_size through a
\* read guard dropped at once, then bucket after bucket in place
WriteLock(t) ==
    /\ At(t, "WriteBlock", "start") /\ ~poisoned
    /\ CanWrite(locks.data_store)
    /\ locks' = [locks EXCEPT !.data_store.writer = t]
    /\ Step(t, [inflight[t] EXCEPT !.pc = "size"])
    /\ ServerIdle /\ UNCHANGED rpc /\ ClientIdle

WriteSize(t) ==
    /\ At(t, "WriteBlock", "size")
    /\ CanRead(locks.bucket_size)
    /\ Step(t, [req |-> inflight[t].req, pc |-> "writing", k |-> 1,
                bucket_size |-> bucket_size, blocks |-> inflight[t].req.blocks])
    /\ UNCHANGED locks /\ ServerIdle /\ UNCHANGED rpc /\ ClientIdle

WriteStep(t) ==
    /\ At(t, "WriteBlock", "writing")
    /\ LET h == inflight[t]
           wr == write_block(data_store, h.bucket_size, <<h.req.indices[h.k]>>, h.blocks)
       IN IF h.k > Len(h.req.indices)
          THEN Return(t) /\ UNCHANGED <<data_store, poisoned>>
          ELSE /\ data_store' = wr.store
               /\ poisoned' = (wr.status = "Panic")
               /\ IF wr.status = "Ok"
                  THEN /\ Step(t, [h EXCEPT !.k = @ + 1,
                                   !.blocks = SubSeq(@, h.bucket_size + 1, Len(@))])
                       /\ UNCHANGED locks
                  ELSE Return(t)
    /\ UNCHANGED <<bucket_size, rpc>> /\ ClientIdle

\* print: display_tree(&data_store) under the read guard
DisplayLock(t) ==
    /\ At(t, "Print", "start") /\ ~poisoned
    /\ CanRead(locks.data_store)
    /\ locks' = [locks EXCEPT !.data_store.readers = @ \cup {t}]
    /\ Step(t, [inflight[t] EXCEPT !.pc = "display"])
    /\ ServerIdle /\ UNCHANGED rpc /\ ClientIdle

DisplayReturn(t) ==
    /\ At(t, "Print", "display")
    /\ Return(t) /\ ServerIdle
    /\ UNCHANGED rpc /\ ClientIdle

NextLock ==
    \/ \E t \in Handlers, req \in Requests : Receive(t, req)
    \/ \E t \in Handlers : LockFails(t)
    \/ \E t \in Handlers : SetupLock(t)
    \/ \E t \in Handlers : SetupSize(t)
    \/ \E t \in Handlers : SetupReturn(t)
    \/ \E t \in Handlers : ReadLock(t)
    \/ \E t \in Handlers : ReadStep(t)
    \/ \E t \in Handlers : WriteLock(t)
    \/ \E t \in Handlers : WriteSize(t)
    \/ \E t \in Handlers : WriteStep(t)
    \/ \E t \in Handlers : DisplayLock(t)
    \/ \E t \in Handlers : DisplayReturn(t)

SpecLock == InitServer /\ [][NextLock]_vars

\* the steps of the handler on worker t once it has its request
HandlerStep(t) ==
    \/ LockFails(t)
    \/ SetupLock(t) \/ SetupSize(t) \/ SetupReturn(t)
    \/ ReadLock(t) \/ ReadStep(t)
    \/ WriteLock(t) \/ WriteSize(t) \/ WriteStep(t)
    \/ DisplayLock(t) \/ DisplayReturn(t)

\* fair scheduling: a worker whose handler can step again and again does
\* step, which for a handler waiting in RwLock::read / write means that the
\* lock does not pass it over for ever
SpecLockFair == SpecLock /\ \A t \in Handlers : SF_vars(HandlerStep(t))

\* ------------------------------------------------------------------ the index functions alone
\* get_index and get_on_path_indices of a handler of depth L, applied to a
\* leaf label x and a level lvl; obs keeps the call and what it returned
IndexInputs ==
    {<<L, x, lvl>> \in (0..MaxDepth) \X (0..(Pow2(MaxDepth) - 1)) \X (0..MaxDepth) :
        x < Pow2(L) /\ lvl <= L}

InitIndex ==
    /\ pc = "index"
    /\ data = EmptyMap /\ next = 0
    /\ n = -1 /\ l = -1 /\ num_leaves = 0 /\ z = 0
    /\ stash = EmptyMap /\ pmap = EmptyMap
    /\ data_store = <<>> /\ bucket_size = 0 /\ poisoned = FALSE
    /\ locks = Unlocked /\ inflight = NoHandlers
    /\ shadow = EmptyMap
    /\ last = NoAccess
    /\ rpc = NoAccess
    /\ acc = 0
    /\ obs = NoAccess

CallGetIndex(L, x, lvl) ==
    /\ pc = "index"
    /\ l' = L
    /\ obs' = [op |-> "get_index", x |-> x, lvl |-> lvl, out |-> get_index(L, x, lvl)]
    /\ UNCHANGED <<pc, data, next, n, z, num_leaves, stash, pmap, data_store,
                   bucket_size, poisoned, locks, inflight, shadow, last, rpc, acc>>

CallGetOnPathIndices(L, x, lvl) ==
    /\ pc = "index"
    /\ l' = L
    /\ obs' = [op |-> "get_on_path_indices", x |-> x, lvl |-> lvl,
               out |-> get_on_path_indices(L, x, lvl)]
    /\ UNCHANGED <<pc, data, next, n, z, num_leaves, stash, pmap, data_store,
                   bucket_size, poisoned, locks, inflight, shadow, last, rpc, acc>>

NextIndex ==
    \/ \E i \in IndexInputs : CallGetIndex(i[1], i[2], i[3])
    \/ \E i \in IndexInputs : CallGetOnPathIndices(i[1], i[2], i[3])

SpecIndex == InitIndex /\ [][NextIndex]_vars

\* ------------------------------------------------------------------ what the server observes
\* an access sequence is a list of <<op, a>>; setup's own accesses come first
SetupAccesses(nn) == [k \in 1..nn |-> <<"write", k - 1>>]

AccessSet(nn) == {"read", "write"} \X (0..(nn - 1))

\* what the server sees of one access: its ReadBlock and WriteBlock indices
Observed(L, x) == <<ReadIndices(L, x), WriteIndices(L, x)>>

\* the index traces of accesses i.. of accs run from position map pm, over
\* all leaf draws, each trace with the number of draw sequences producing
\* it; ViewOver sums the branches of the draws 0..r of access i
RECURSIVE ViewFrom(_, _, _, _, _), ViewOver(_, _, _, _, _, _)
ViewFrom(pm, L, nl, accs, i) ==
    IF i > Len(accs) THEN SetToBag({<<>>})
    ELSE ViewOver(pm, L, nl, accs, i, nl - 1)

ViewOver(pm, L, nl, accs, i, r) ==
    IF r < 0 THEN EmptyBag
    ELSE LET a == accs[i][2]
             e == Observed(L, AccessLeaf(pm, a, r))
         IN BagOfAll(LAMBDA t : <<e>> \o t,
                     ViewFrom(Remap(pm, a, r), L, nl, accs, i + 1))
            (+) ViewOver(pm, L, nl, accs, i, r - 1)

View(pm, L, nl, accs) == ViewFrom(pm, L, nl, accs, 1)

InitObliv ==
    /\ pc = "observe"
    /\ data = EmptyMap /\ next = 0
    /\ n = -1 /\ l = -1 /\ num_leaves = 0 /\ z = 0
    /\ stash = EmptyMap /\ pmap = EmptyMap
    /\ data_store = <<>> /\ bucket_size = 0 /\ poisoned = FALSE
    /\ locks = Unlocked /\ inflight = NoHandlers
    /\ shadow = EmptyMap
    /\ last = NoAccess
    /\ rpc = NoAccess
    /\ acc = 0
    /\ obs = NoAccess

\* an ORAM of nn >= 2 addresses with its initial position map
ObserveSetup(nn) ==
    /\ pc = "observe" /\ n = -1
    /\ n' = nn /\ l' = TreeDepth(nn) /\ num_leaves' = NumLeaves(TreeDepth(nn))
    /\ pmap' \in [0..(nn - 1) -> 0..(NumLeaves(TreeDepth(nn)) - 1)]
    /\ obs' = [op |-> "observe", s1 |-> <<>>, s2 |-> <<>>,
               v1 |-> EmptyBag, v2 |-> EmptyBag]
    /\ UNCHANGED <<pc, data, next, z, stash, data_store, bucket_size, poisoned,
                   shadow, last, rpc, acc, locks, inflight>>

\* both sequences grow by one access, and the server's views are recomputed
ObserveAccess(a1, a2) ==
    /\ pc = "observe" /\ n >= 2
    /\ n + Len(obs.s1) < MaxAccesses
    /\ LET s1 == Append(obs.s1, a1)
           s2 == Append(obs.s2, a2)
       IN obs' = [op |-> "observe", s1 |-> s1, s2 |-> s2,
                  v1 |-> View(pmap, l, num_leaves, SetupAccesses(n) \o s1),
                  v2 |-> View(pmap, l, num_leaves, SetupAccesses(n) \o s2)]
    /\ UNCHANGED <<pc, data, next, n, l, z, num_leaves, stash, pmap, data_store,
                   bucket_size, poisoned, shadow, last, rpc, acc, locks, inflight>>

NextObliv ==
    \/ \E nn \in 2..MaxN : ObserveSetup(nn)
    \/ \E a1 \in AccessSet(n), a2 \in AccessSet(n) : ObserveAccess(a1, a2)

SpecObliv == InitObliv /\ [][NextObliv]_vars

\* ------------------------------------------------------------------ tree geometry
\* The vocabulary of the properties below, independent of get_index: the
\* implicit-heap layout with root 0, where the children of i are 2i+1 and 2i+2
Parent(b) == (b - 1) \div 2

LeafBucket(L, x) == Pow2(L) - 1 + x

RECURSIVE AncestorAt(_, _)
AncestorAt(b, up) == IF up = 0 THEN b ELSE AncestorAt(Parent(b), up - 1)

\* the L+1 buckets from the root down to leaf x
RootToLeaf(L, x) == [k \in 1..(L + 1) |-> AncestorAt(LeafBucket(L, x), L + 1 - k)]

PathBuckets(L, x) == Range(RootToLeaf(L, x))

\* the slots of the tree that hold the block b
SlotsHolding(b) ==
    {bj \in UNION {{<<i, j>> : j \in DOMAIN data_store[i]} : i \in DOMAIN data_store} :
        data_store[bj[1]][bj[2]] = b}

SlotsTagged(a) ==
    {bj \in UNION {{<<i, j>> : j \in DOMAIN data_store[i]} : i \in DOMAIN data_store} :
        data_store[bj[1]][bj[2]].index = a}

Quiescent == pc \in {"setup", "ready"}

Accessed == last.op \in {"read", "write"}

\* ------------------------------------------------------------------ claims
\* C1: a read returns the value of the most recent write to its address,
\* whatever accesses happened in between
C1_ReadAfterWrite ==
    (Accessed /\ last.op = "read") =>
        (last.prior # NoneVal /\ last.out = last.prior)

\* a read of an address that was overwritten after setup returns the new value
C1_Witness ==
    /\ Accessed /\ last.op = "read"
    /\ last.out = shadow[last.a]
    /\ last.out # Some(data[last.a])

\* C2: write returns the value stored just before the call, and an access
\* returns "not present" exactly when the address was never written (reads
\* are made after setup only, when every address has been written)
C2_WriteReturnsPrior ==
    Accessed =>
        /\ (last.out = NoneVal) <=> (last.prior = NoneVal)
        /\ last.op = "write" => last.out = last.prior

\* a write after setup that returns the value it replaces
C2_Witness ==
    /\ Accessed /\ last.op = "write" /\ pc = "ready" /\ acc > n
    /\ last.out = Some(data[last.a]) /\ last.v # data[last.a]
    /\ shadow[last.a] = Some(last.v)

\* C3: for N >= 2, a read after setup returns data[a]: the first read, and
\* any read of an address whose latest write wrote data[a]
C3_SetupThenRead ==
    (/\ Accessed /\ last.op = "read" /\ n >= 2
     /\ (acc = n + 1 \/ last.prior = Some(data[last.a]))) =>
        last.out = Some(data[last.a])

\* the last element of a three-element array read back right after setup
C3_Witness ==
    /\ Accessed /\ last.op = "read" /\ n = 3 /\ acc = n + 1
    /\ last.a = 2 /\ last.out = Some(data[2])

\* C4: for N = 1 setup completes (and reads and writes then use bucket 0)
C4_SingleSlotSetupCompletes == (n = 1) => (pc # "panicked")

\* C5: after each access, the block of every written address is in the
\* stash or in a bucket on the path to its current leaf
C5_PositionMapCoverage ==
    Quiescent =>
        \A a \in DOMAIN shadow :
            shadow[a] # NoneVal =>
                \/ (a \in DOMAIN stash /\ Some(stash[a]) = shadow[a])
                \/ \E bj \in SlotsHolding(MkBlock(a, shadow[a][1])) :
                      (bj[1] - 1) \in PathBuckets(l, pmap[a])

\* one block waits in the stash while another sits in a leaf bucket
C5_Witness ==
    /\ pc = "ready" /\ n = 3
    /\ \E a \in DOMAIN stash : SlotsTagged(a) = {}
    /\ \E a \in (DOMAIN shadow) \ (DOMAIN stash) :
          \E bj \in SlotsTagged(a) : bj[1] - 1 = LeafBucket(l, pmap[a])

\* C6: after each access, every address tag occurs at most once in the
\* tree's slots and the stash together
C6_TagUniqueness ==
    Quiescent =>
        \A a \in DOMAIN shadow :
            Cardinality(SlotsTagged(a)) + (IF a \in DOMAIN stash THEN 1 ELSE 0) <= 1

\* all three blocks stored, some in the tree and some in the stash
C6_Witness ==
    /\ pc = "ready" /\ n = 3 /\ acc > n
    /\ DOMAIN stash # {}
    /\ \A a \in DOMAIN shadow :
          Cardinality(SlotsTagged(a)) + (IF a \in DOMAIN stash THEN 1 ELSE 0) = 1
    /\ \E a \in DOMAIN shadow : SlotsTagged(a) # {}

\* C7: every bucket of the store holds exactly bucket_size slots, and a
\* successful ReadBlock answers len(indices) * bucket_size blocks, the
\* buckets of the requested indices in request order
C7_BucketCapacity ==
    /\ \A i \in DOMAIN data_store : Len(data_store[i]) = bucket_size
    /\ (rpc.op = "ReadBlock" /\ rpc.status = "Ok") =>
          /\ Len(rpc.blocks) = Len(rpc.indices) * bucket_size
          /\ \A k \in DOMAIN rpc.indices : \A j \in 1..bucket_size :
                rpc.blocks[(k - 1) * bucket_size + j] =
                    data_store[rpc.indices[k] + 1][j]

\* two written buckets of two slots each read back in one request
C7_Witness ==
    /\ rpc.op = "ReadBlock" /\ rpc.status = "Ok"
    /\ bucket_size = 2 /\ Len(rpc.indices) = 2 /\ Len(rpc.blocks) = 4
    /\ rpc.indices[1] # rpc.indices[2]
    /\ rpc.blocks[1] # EMPTY /\ rpc.blocks[4] # EMPTY

\* C8: every logical access issues exactly one ReadBlock RPC and then
\* exactly one WriteBlock RPC
C8_OneReadThenOneWrite ==
    Accessed => last.rpcs = <<"ReadBlock", "WriteBlock">>

\* C9: the ReadBlock indices are the root-to-leaf path of pmap[a] as it was
\* before the access replaced it
C9_ReadPathIsOldLeaf ==
    Accessed => last.rindices = RootToLeaf(l, last.before)

\* an access whose fresh leaf differs from the old one
C9_Witness ==
    /\ Accessed /\ l = 2
    /\ pmap[last.a] # last.before
    /\ last.rindices = RootToLeaf(l, last.before)
    /\ last.rindices # RootToLeaf(l, pmap[last.a])

\* C10: two access sequences of equal length on the same ORAM induce the
\* same index traces, each produced by the same number of leaf draws
C10_AccessPatternIndependence ==
    (obs.op = "observe") => (obs.v1 = obs.v2)

\* two sequences that differ in address and in read vs write at every step,
\* seen by the server as more than one possible trace
C10_Witness ==
    /\ obs.op = "observe" /\ Len(obs.s1) = 2
    /\ \A i \in 1..2 : obs.s1[i][1] # obs.s2[i][1] /\ obs.s1[i][2] # obs.s2[i][2]
    /\ obs.v1 = obs.v2
    /\ Cardinality(BagToSet(obs.v1)) > 1

\* C11: when the ReadBlock or WriteBlock RPC of an access fails, the access
\* stops there (no WriteBlock follows a failed ReadBlock) and the client
\* makes no later logical access
C11_AbortOnRpcFailure ==
    (rpc.op = "fault" /\ rpc.failed \in RpcKinds) =>
        /\ rpc.failed = "ReadBlock" => rpc.rpcs = <<"ReadBlock">>
        /\ acc = rpc.acc

\* ------------------------------------------------------------------ claims on the server's handlers
IndexOk(index) == index \in 0..(Len(data_store) - 1)

\* C12: ReadBlock with every index in [0, num_buckets) answers the buckets of
\* the indices in request order; with any index out of range it fails with
\* NotFound; the store is the same after it in both cases
C12_ReadBlockContract ==
    [][\A indices \in ReqIndices :
          SrvReadBlock(indices) =>
             /\ data_store' = data_store
             /\ IF \A k \in DOMAIN indices : IndexOk(indices[k])
                THEN /\ rpc'.status = "Ok"
                     /\ Len(rpc'.blocks) = Len(indices) * bucket_size
                     /\ \A k \in DOMAIN indices : \A j \in 1..bucket_size :
                           rpc'.blocks[(k - 1) * bucket_size + j] =
                               data_store[indices[k] + 1][j]
                ELSE rpc'.status = "NotFound"]_vars

\* C13: WriteBlock with an out-of-range index anywhere in its list fails with
\* NotFound and leaves every bucket as it was
C13_WriteBlockBadIndexNoEffect ==
    [][\A indices \in ReqIndices, blocks \in ReqBlocks :
          (/\ SrvWriteBlock(indices, blocks)
           /\ \E k \in DOMAIN indices : ~IndexOk(indices[k])) =>
             /\ rpc'.status = "NotFound"
             /\ data_store' = data_store]_vars

\* C14: WriteBlock with len(blocks) # len(indices) * Z is answered Invalid,
\* and the server goes on serving
C14_WriteBlockLengthRejected ==
    [][\A indices \in ReqIndices, blocks \in ReqBlocks :
          (/\ SrvWriteBlock(indices, blocks)
           /\ Len(blocks) # Len(indices) * bucket_size) =>
             /\ rpc'.status = "Invalid"
             /\ ~poisoned']_vars

\* C15: Setup(num_layers, bucket_size) answers success and leaves a store of
\* exactly 2^num_layers - 1 buckets of bucket_size EMPTY blocks, nothing of
\* the old store, and bucket_size recorded
C15_SetupReplacesStore ==
    [][\A num_layers \in 1..MaxLayers, bs \in 1..MaxZ :
          SrvSetup(num_layers, bs) =>
             /\ rpc'.status = "Ok"
             /\ rpc'.success
             /\ Len(data_store') = Pow2(num_layers) - 1
             /\ \A i \in DOMAIN data_store' :
                   /\ Len(data_store'[i]) = bs
                   /\ \A j \in 1..bs : data_store'[i][j] = EMPTY
             /\ bucket_size' = bs]_vars

\* ------------------------------------------------------------------ claims on concurrent requests
\* a handler executes on the store from the moment it has its guard until
\* it returns
WriteGuard(t) ==
    /\ inflight[t] # Idle
    /\ \/ inflight[t].req.op = "Setup" /\ inflight[t].pc \in {"size", "return"}
       \/ inflight[t].req.op = "WriteBlock" /\ inflight[t].pc \in {"size", "writing"}

ReadGuard(t) == inflight[t] # Idle /\ inflight[t].pc \in {"reading", "display"}

\* a WriteBlock that has overwritten some buckets of its list and not yet all
HalfWritten(t) ==
    /\ inflight[t] # Idle
    /\ inflight[t].req.op = "WriteBlock" /\ inflight[t].pc = "writing"
    /\ inflight[t].k > 1 /\ inflight[t].k <= Len(inflight[t].req.indices)

\* C16: while a Setup or a WriteBlock executes no other handler executes
\* (ReadBlock and the diagnostic request may overlap each other), so a reader
\* never runs beside a half-written path and what a ReadBlock has gathered
\* is what the store holds
C16_WritersExclusive ==
    /\ \A t \in Handlers, u \in Handlers :
          (t # u /\ WriteGuard(t)) => ~(WriteGuard(u) \/ ReadGuard(u))
    /\ \A t \in Handlers :
          ReadGuard(t) =>
             /\ \A u \in Handlers : ~HalfWritten(u)
             /\ inflight[t].pc = "reading" =>
                   inflight[t].blocks =
                      Flatten([i \in 1..(inflight[t].k - 1) |->
                                  data_store[inflight[t].req.indices[i] + 1]])

\* a WriteBlock has overwritten the leaf bucket of its path and not yet the
\* root, while a ReadBlock of a path waits for the lock
C16_Witness ==
    \E t \in Handlers, u \in Handlers :
       /\ HalfWritten(t) /\ locks.data_store.writer = t
       /\ data_store[inflight[t].req.indices[1] + 1] # data_store[1]
       /\ inflight[u] # Idle
       /\ inflight[u].req.op = "ReadBlock" /\ inflight[u].pc = "start"
       /\ Len(inflight[u].req.indices) = 2

\* ------------------------------------------------------------------ claims on the write-back request
Reverse(s) == [i \in 1..Len(s) |-> s[Len(s) + 1 - i]]

\* C17: the WriteBlock request of an access lists the L+1 buckets of the
\* path of the old leaf, leaf first and root last (the buckets its ReadBlock
\* listed), and carries (L+1)*Z blocks, each the current block of an address
\* or the explicit EMPTY block
C17_WriteRequestShape ==
    Accessed =>
        /\ last.windices = Reverse(RootToLeaf(l, last.before))
        /\ Range(last.windices) = Range(last.rindices)
        /\ Len(last.windices) = l + 1
        /\ Len(last.wblocks) = (l + 1) * z
        /\ \A i \in DOMAIN last.wblocks :
              \/ last.wblocks[i] = EMPTY
              \/ /\ last.wblocks[i].index \in DOMAIN shadow
                 /\ shadow[last.wblocks[i].index] = Some(last.wblocks[i].value)

\* a request of three buckets of two slots: a block in the leaf bucket next
\* to a dummy, and a block in the root bucket
C17_Witness ==
    /\ Accessed /\ l = 2 /\ z = 2
    /\ Len(last.wblocks) = 6
    /\ last.wblocks[1] # EMPTY /\ last.wblocks[2] = EMPTY
    /\ last.wblocks[5] # EMPTY
    /\ last.windices[1] = LeafBucket(l, last.before) /\ last.windices[3] = 0

\* ------------------------------------------------------------------ claims on the index functions
\* the leaf labels of the subtree under the level-lvl bucket of the path of x
LeavesUnder(L, x, lvl) ==
    {y \in 0..(Pow2(L) - 1) :
        AncestorAt(LeafBucket(L, y), L - lvl) = AncestorAt(LeafBucket(L, x), L - lvl)}

\* C18: get_index(x, lvl) is the heap index of the level-lvl ancestor-or-self
\* of the leaf bucket 2^L - 1 + x; it is 0 at level 0 (and so for L = 0) and
\* the leaf bucket itself at level L
C18_GetIndexIsAncestor ==
    (obs.op = "get_index") =>
        /\ obs.out = AncestorAt(LeafBucket(l, obs.x), l - obs.lvl)
        /\ obs.lvl = 0 => obs.out = 0
        /\ obs.lvl = l => obs.out = Pow2(l) - 1 + obs.x
        /\ obs.out \in (Pow2(obs.lvl) - 1)..(Pow2(obs.lvl + 1) - 2)

\* the level-2 bucket above the last leaf of a tree of depth 4
C18_Witness ==
    /\ obs.op = "get_index" /\ l = 4 /\ obs.x = 15 /\ obs.lvl = 2
    /\ obs.out = 6

\* C19: get_on_path_indices(x, lvl) is the set of the leaf labels y with
\* get_index(y, lvl) = get_index(x, lvl), the leaves under the level-lvl
\* bucket of the path of x: {x} at level L and every leaf at level 0
C19_OnPathIsSubtreeLeaves ==
    (obs.op = "get_on_path_indices") =>
        /\ obs.out = {y \in 0..(Pow2(l) - 1) :
                         get_index(l, y, obs.lvl) = get_index(l, obs.x, obs.lvl)}
        /\ obs.out = LeavesUnder(l, obs.x, obs.lvl)
        /\ obs.lvl = l => obs.out = {obs.x}
        /\ obs.lvl = 0 => obs.out = 0..(Pow2(l) - 1)

\* the four leaves under the level-2 bucket of the path of leaf 6, depth 4
C19_Witness ==
    /\ obs.op = "get_on_path_indices" /\ l = 4 /\ obs.x = 6 /\ obs.lvl = 2
    /\ obs.out = 4..7

\* ------------------------------------------------------------------ claims on eviction
\* the block in slot j of the k-th bucket of the last WriteBlock request
Emitted(k, j) == last.wblocks[(k - 1) * z + j]

\* C20: a non-empty block written into the level-lvl bucket of the path of x
\* has its current leaf pmap[a] among the leaves under that bucket, is no
\* longer in the stash, and its tag occurs nowhere else in the request
C20_EvictionPlacement ==
    Accessed =>
        \A k \in 1..(l + 1), j \in 1..z :
            Emitted(k, j) # EMPTY =>
                /\ pmap[Emitted(k, j).index] \in LeavesUnder(l, last.before, l + 1 - k)
                /\ Emitted(k, j).index \notin DOMAIN stash
                /\ \A i \in DOMAIN last.wblocks :
                      last.wblocks[i].index = Emitted(k, j).index => i = (k - 1) * z + j

\* a block evicted into the middle bucket of a path of three, its own leaf
\* is the sibling of the leaf accessed
C20_Witness ==
    /\ Accessed /\ l = 2
    /\ Emitted(2, 1) # EMPTY
    /\ pmap[Emitted(2, 1).index] # last.before
    /\ Emitted(2, 1).index \notin DOMAIN stash

\* ------------------------------------------------------------------ claims on what stays in the stash
\* the bucket written at level lvl of the last request holds Z blocks of
\* addresses
WrittenFull(lvl) == \A j \in 1..z : Emitted(l + 1 - lvl, j) # EMPTY

\* C21 as stated: after the write-back of an access to old leaf x, an entry
\* left in the stash has its leaf pmap[a] under no bucket of the written path
C21_StashNotCovered ==
    Accessed =>
        \A a \in DOMAIN stash : \A lvl \in 0..l :
            pmap[a] \notin LeavesUnder(l, last.before, lvl)

\* C21 amended: an entry left in the stash has its leaf pmap[a] under no
\* bucket of the written path that had room left; every bucket of the path
\* that covers it, the root among them, was written with Z blocks of
\* addresses
C21_StashCoveredOnlyByFull ==
    Accessed =>
        \A a \in DOMAIN stash :
            /\ WrittenFull(0)
            /\ \A lvl \in 0..l :
                  pmap[a] \in LeavesUnder(l, last.before, lvl) => WrittenFull(lvl)

\* an entry stays behind whose leaf lies under the middle bucket of the
\* path: the middle bucket and the root cover it and both are full
C21_Witness ==
    /\ Accessed /\ l = 2
    /\ \E a \in DOMAIN stash : pmap[a] \in LeavesUnder(l, last.before, 1)
    /\ WrittenFull(1) /\ WrittenFull(0)

\* C22: after an access no bucket of the written path has an EMPTY slot
\* while an entry that it could take is left in the stash: the stash holds
\* what the path could not absorb
C22_StashIsOverflow ==
    Accessed =>
        \A k \in 1..(l + 1), j \in 1..z :
            Emitted(k, j) = EMPTY =>
                ~ \E a \in DOMAIN stash :
                     pmap[a] \in LeavesUnder(l, last.before, l + 1 - k)

\* the leaf bucket of the path went out with a dummy while an entry of
\* another leaf stayed in the stash behind a full root and middle bucket
C22_Witness ==
    /\ Accessed /\ l = 2
    /\ Emitted(1, 1) = EMPTY
    /\ DOMAIN stash # {}
    /\ WrittenFull(0) /\ WrittenFull(1)

\* ------------------------------------------------------------------ claims on a failing setup
\* C23: when the Setup RPC of setup fails, the client stops: no access, and
\* so no ReadBlock or WriteBlock, is made afterwards
C23_SetupFailureFatal ==
    (rpc.op = "fault" /\ rpc.failed = "Setup") => acc = 0

\* ------------------------------------------------------------------ claims on the configuration
\* C24: a Setup request with num_layers <= 0 or bucket_size <= 0 is answered
\* as failed and does not replace the store
C24_InvalidSetupRejected ==
    [][\A num_layers \in -1..MaxLayers, bs \in -1..MaxZ :
          (/\ SrvSetup(num_layers, bs)
           /\ (num_layers <= 0 \/ bs <= 0)) =>
             /\ rpc'.status # "Ok"
             /\ data_store' = data_store
             /\ bucket_size' = bucket_size]_vars

\* ------------------------------------------------------------------ claims on index ranges
\* C25: with N >= 2, from setup on every pmap entry is a leaf label in
\* [0, num_leaves) with num_leaves = 2^L, the store has 2^(L+1) - 1 buckets,
\* and every index of the ReadBlock and WriteBlock of an access lies in
\* [0, 2^(L+1) - 1), so that neither request is answered NotFound
C25_IndicesInRange ==
    (Quiescent /\ n >= 2) =>
        /\ num_leaves = Pow2(l)
        /\ DOMAIN pmap = 0..(n - 1)
        /\ \A a \in DOMAIN pmap : pmap[a] \in 0..(num_leaves - 1)
        /\ Len(data_store) = Pow2(l + 1) - 1
        /\ Accessed =>
              /\ \A k \in DOMAIN last.rindices :
                    last.rindices[k] \in 0..(Pow2(l + 1) - 2)
              /\ \A k \in DOMAIN last.windices :
                    last.windices[k] \in 0..(Pow2(l + 1) - 2)
              /\ read_block(data_store, last.rindices).status = "Ok"
              /\ write_block(data_store, bucket_size,
                             last.windices, last.wblocks).status = "Ok"
              /\ ~poisoned

\* an access to the last leaf of a tree of depth 2: its path ends in the
\* last bucket of the store
C25_Witness ==
    /\ Quiescent /\ Accessed /\ n = 3 /\ l = 2
    /\ last.before = num_leaves - 1
    /\ last.rindices[3] = Len(data_store) - 1
    /\ last.windices[1] = Len(data_store) - 1

\* ------------------------------------------------------------------ claims on lock order and progress
\* whoever has a guard of bucket_size has the write guard of data_store
LockOrder ==
    \A t \in Handlers :
        (locks.bucket_size.writer = t \/ t \in locks.bucket_size.readers) =>
            locks.data_store.writer = t

\* while requests are in flight some handler can take a step
NoDeadlock == (\E t \in Handlers : inflight[t] # Idle) => ENABLED (\E t \in Handlers : HandlerStep(t))

====
